---- MODULE Spec2Model ----
(***************************************************************************)
(* pvl-webtools: the fetch pipeline with its rate limiter (web_fetch.py),  *)
(* the SearXNG client (web_search.py) and the tool functions that wrap     *)
(* them (mcp_server.py).                                                   *)
(*                                                                         *)
(* Strings the code inspects character by character (urls, queries,        *)
(* domain filters) are sequences of one-character strings.  An optional    *)
(* value (Python's None or a value) is a sequence of length 0 or 1.        *)
(***************************************************************************)
EXTENDS Integers, Sequences, FiniteSets, TLC

\* ------------------------------------------------------------------ bounds
\* Number of concurrent callers of web_fetch.
NumTasks == 2
\* The wall clock stops advancing here.
MaxClock == 7
\* Longest results array the search backend returns.
MaxResultsLen == 2
\* Number of check_health calls whose return values are recorded.
MaxHealthCalls == 3

\* ------------------------------------------------------- program constants
MIN_REQUEST_INTERVAL == 3
MAX_CONTENT_LENGTH == 1000000

VARIABLES
    \* web_fetch.py -- module state, the wall clock, one frame per caller
    clock,              \* time.time()
    last_request_time,  \* _last_request_time
    rate_limit_lock,    \* _rate_limit_lock: TRUE while held
    waiters,            \* callers suspended in _rate_limit_lock.acquire(), FIFO
    fpc,                \* per caller: where its web_fetch call stands
    fargs,              \* per caller: the arguments of its call
    wake,               \* per caller: when its asyncio.sleep ends
    lockTaken,          \* per caller: this call has held _rate_limit_lock
    stampTime,          \* per caller: <<time>> this call wrote _last_request_time
    getTime,            \* per caller: <<time>> this call issued its HTTP GET
    fenv,               \* per caller: what the extraction libraries did
    fraw,               \* per caller: <<the response, what _fetch_url made of it>>
    fresult,            \* per caller: what web_fetch returned or raised
    fpayload,           \* per caller: what the fetch tool returned
    \* web_search.py / mcp_server.py -- one SearXNGClient and its caller
    url,                \* SearXNGClient.url
    health_checked,     \* SearXNGClient._health_checked
    is_healthy,         \* SearXNGClient._is_healthy
    backend,            \* what GET <base>/healthz would answer now
    healthzGets,        \* statuses answered to the GETs of <base>/healthz
    healthReturns,      \* who called check_health and what it returned, oldest first
    spc,                \* where the search call stands
    sargs,              \* the arguments SearXNGClient.search was called with
    toolArgs,           \* <<max_results>> as given to the search tool
    srequest,           \* <<params>> of the GET <base>/search, if issued
    sresponse,          \* <<response>> to that GET, once it has arrived
    sresult,            \* what SearXNGClient.search returned or raised
    spayload,           \* what the search tool returned
    html,               \* the page given to an extractor
    extracted           \* which extractor ran on it, and what it returned

fetchVars == <<clock, last_request_time, rate_limit_lock, waiters, fpc, fargs, wake,
               lockTaken, stampTime, getTime, fenv, fraw, fresult, fpayload>>
searchVars == <<url, health_checked, is_healthy, backend, healthzGets, healthReturns,
                spc, sargs, toolArgs, srequest, sresponse, sresult, spayload>>
extractVars == <<html, extracted>>
vars == <<fetchVars, searchVars, extractVars>>

\* ---------------------------------------------------------------- strings
None == <<>>
Some(v) == <<v>>

Whitespace == {" ", "\n"}

\* str.strip(): drop leading and trailing whitespace.
RECURSIVE lstrip(_)
lstrip(s) ==
    IF s # <<>> /\ Head(s) \in Whitespace THEN lstrip(Tail(s)) ELSE s

RECURSIVE rstrip(_)
rstrip(s) ==
    IF s # <<>> /\ s[Len(s)] \in Whitespace THEN rstrip(SubSeq(s, 1, Len(s) - 1)) ELSE s

strip(s) == rstrip(lstrip(s))

\* str.startswith(prefix)
startswith(s, prefix) ==
    Len(s) >= Len(prefix) /\ SubSeq(s, 1, Len(prefix)) = prefix

HttpPrefix == <<"h", "t", "t", "p", ":", "/", "/">>
HttpsPrefix == <<"h", "t", "t", "p", "s", ":", "/", "/">>

\* -------------------------------------------------------------- web_fetch
Tasks == 1..NumTasks

\* The urls callers pass: empty, blank, a foreign scheme, a padded http url,
\* and one url of each accepted scheme.
Urls ==
    { <<>>,
      <<" ">>,
      <<"f", "t", "p", ":", "/", "/", "a">>,
      <<" ">> \o HttpPrefix \o <<"a">>,
      HttpPrefix \o <<"a">>,
      HttpsPrefix \o <<"a">> }

ExtractModes == {"markdown", "article", "raw", "metadata"}

\* What markitdown does for _extract_markdown: the import fails, the conversion
\* raises, the result carries no markdown, or it carries text.
MarkdownOutcomes == {"unavailable", "raises", "none", "text"}
\* What trafilatura does for _extract_article.
ArticleOutcomes == {"unavailable", "raises", "empty", "text"}

\* The decimal digits, in order: DigitChars[i] is the digit of value i - 1.
DigitChars == <<"0", "1", "2", "3", "4", "5", "6", "7", "8", "9">>

\* Whether int(s) succeeds: s is a non-empty run of decimal digits.
is_decimal(s) ==
    s # <<>> /\ \A i \in 1..Len(s) : \E d \in 1..Len(DigitChars) : DigitChars[d] = s[i]

\* int(s) for such an s.
RECURSIVE int_of(_)
int_of(s) ==
    IF s = <<>> THEN 0
    ELSE 10 * int_of(SubSeq(s, 1, Len(s) - 1))
         + (CHOOSE d \in 1..Len(DigitChars) : DigitChars[d] = s[Len(s)]) - 1

\* Content-Length headers of a response: none, empty, the cap, one byte over
\* the cap, and one that is no number.
ContentLengths ==
    { None,
      Some(<<>>),
      Some(<<"1", "0", "0", "0", "0", "0", "0">>),
      Some(<<"1", "0", "0", "0", "0", "0", "1">>),
      Some(<<"1", "k">>) }

\* What the network answers to the GET: a transport failure, a non-2xx status,
\* or a 2xx response with one of the Content-Length headers.
FetchResponses ==
    { [kind |-> "transport", status |-> 0, content_length |-> None],
      [kind |-> "response", status |-> 404, content_length |-> None] }
    \cup { [kind |-> "response", status |-> st, content_length |-> cl] :
             st \in {200, 206}, cl \in ContentLengths }

NoArgs == [url |-> <<>>, extract_mode |-> "markdown", rate_limit |-> TRUE, via |-> "library"]
NoEnv == [markdown |-> "unused", article |-> "unused"]
NoRaw == <<>>
NoResult == [kind |-> "none"]
NoPayload == [kind |-> "none"]

\* web_fetch lines 227-231: the two checks on url, in order.
validate_url_scheme_unchecked(u) ==
    IF strip(u) = <<>> THEN "URL cannot be empty" ELSE "ok"

validate_url(u) ==
    IF strip(u) = <<>> THEN "URL cannot be empty"
    ELSE IF ~(startswith(u, HttpPrefix) \/ startswith(u, HttpsPrefix))
         THEN "URL must start with http:// or https://"
         ELSE "ok"

\* _extract_markdown: the markdown text, or None.
extract_markdown(md) ==
    IF md = "text" THEN Some("markitdown(html)") ELSE None

\* _extract_article: trafilatura's text when it yields some, else _regex_extract.
extract_article(art) ==
    IF art = "text" THEN "trafilatura(html)" ELSE "regex_extract(html)"

\* web_fetch lines 238-253 with the fallback's relabelling (line 251) left out.
extract_without_relabel(extract_mode, md, art) ==
    IF extract_mode = "raw"
    THEN [content |-> "html[:50000]", actual_mode |-> extract_mode]
    ELSE IF extract_mode = "metadata"
    THEN [content |-> "extract_metadata(html)", actual_mode |-> extract_mode]
    ELSE IF extract_mode = "markdown"
    THEN IF extract_markdown(md) # None
         THEN [content |-> extract_markdown(md)[1], actual_mode |-> extract_mode]
         ELSE [content |-> extract_article(art), actual_mode |-> extract_mode]
    ELSE [content |-> extract_article(art), actual_mode |-> extract_mode]

\* web_fetch lines 238-253: the content and the mode that produced it.
extract(extract_mode, md, art) ==
    IF extract_mode = "raw"
    THEN [content |-> "html[:50000]", actual_mode |-> extract_mode]
    ELSE IF extract_mode = "metadata"
    THEN [content |-> "extract_metadata(html)", actual_mode |-> extract_mode]
    ELSE IF extract_mode = "markdown"
    THEN IF extract_markdown(md) # None
         THEN [content |-> extract_markdown(md)[1], actual_mode |-> extract_mode]
         ELSE [content |-> extract_article(art), actual_mode |-> "article"]
    ELSE [content |-> extract_article(art), actual_mode |-> extract_mode]

\* _fetch_url without an exception: response.text has been read and returned.
BodyReturned == [raises |-> "nothing", message |-> "", text_read |-> TRUE]
\* _fetch_url raising before response.text is read.
Raised(exception, message) ==
    [raises |-> exception, message |-> message, text_read |-> FALSE]

\* _fetch_url with the cap compared by >= instead of >
fetch_url_cap_inclusive(resp) ==
    IF resp.kind = "transport" THEN Raised("httpx.HTTPError", "")
    ELSE IF resp.status \notin 200..299 THEN Raised("httpx.HTTPError", "")
    ELSE LET content_length == resp.content_length IN
         IF content_length # None /\ content_length[1] # <<>>
         THEN IF ~is_decimal(content_length[1]) THEN Raised("ValueError", "")
              ELSE IF int_of(content_length[1]) >= MAX_CONTENT_LENGTH
              THEN Raised("WebFetchError", "Content too large")
              ELSE BodyReturned
         ELSE BodyReturned

\* _fetch_url lines 73-81: client.get raising, raise_for_status, the
\* Content-Length check (a missing or empty header is falsy and skips it; int()
\* of a header that is no number raises ValueError), then response.text.
fetch_url(resp) ==
    IF resp.kind = "transport" THEN Raised("httpx.HTTPError", "")
    ELSE IF resp.status \notin 200..299 THEN Raised("httpx.HTTPError", "")
    ELSE LET content_length == resp.content_length IN
         IF content_length # None /\ content_length[1] # <<>>
         THEN IF ~is_decimal(content_length[1]) THEN Raised("ValueError", "")
              ELSE IF int_of(content_length[1]) > MAX_CONTENT_LENGTH
              THEN Raised("WebFetchError", "Content too large")
              ELSE BodyReturned
         ELSE BodyReturned

\* web_fetch lines 236-265: the FetchResult, or the WebFetchError raised.
fetch_outcome(args, resp, md, art) ==
    LET got == fetch_url(resp) IN
    IF got.raises = "httpx.HTTPError"
    THEN [kind |-> "error", message |-> "HTTP error"]
    ELSE IF got.raises # "nothing"
    THEN [kind |-> "error", message |-> "Fetch failed"]
    ELSE LET e == extract(args.extract_mode, md, art) IN
         [kind |-> "ok", url |-> args.url, content |-> e.content,
          extract_mode |-> e.actual_mode]

\* mcp_server.fetch lines 161-176: the payload the tool hands back.
fetch_payload(args, result) ==
    IF args.via # "tool" THEN NoPayload
    ELSE IF result.kind = "ok"
    THEN [kind |-> "success", url |-> result.url, content |-> result.content,
          extract_mode |-> result.extract_mode]
    ELSE [kind |-> "error", error |-> result.message, url |-> args.url]

\* ------------------------------------------------- web_fetch: the actions
\* The first call finds _last_request_time = 0.0 and a wall clock far beyond
\* MIN_REQUEST_INTERVAL, so it never sleeps.
ClockStart == MIN_REQUEST_INTERVAL

FetchInit ==
    /\ clock = ClockStart
    /\ last_request_time = 0
    /\ rate_limit_lock = FALSE
    /\ waiters = <<>>
    /\ fpc = [t \in Tasks |-> "idle"]
    /\ fargs = [t \in Tasks |-> NoArgs]
    /\ wake = [t \in Tasks |-> 0]
    /\ lockTaken = [t \in Tasks |-> FALSE]
    /\ stampTime = [t \in Tasks |-> None]
    /\ getTime = [t \in Tasks |-> None]
    /\ fenv = [t \in Tasks |-> NoEnv]
    /\ fraw = [t \in Tasks |-> NoRaw]
    /\ fresult = [t \in Tasks |-> NoResult]
    /\ fpayload = [t \in Tasks |-> NoPayload]

\* _enforce_rate_limit lines 56-63, from holding the lock to the first
\* suspension: read the clock; sleep if the interval has not elapsed, else
\* write the timestamp, release the lock and go on to _fetch_url.
enter_critical_section(t) ==
    LET now == clock
        elapsed == now - last_request_time
    IN  /\ lockTaken' = [lockTaken EXCEPT ![t] = TRUE]
        /\ IF elapsed < MIN_REQUEST_INTERVAL
           THEN /\ rate_limit_lock' = TRUE
                /\ wake' = [wake EXCEPT ![t] = now + (MIN_REQUEST_INTERVAL - elapsed)]
                /\ fpc' = [fpc EXCEPT ![t] = "sleeping"]
                /\ UNCHANGED <<last_request_time, stampTime>>
           ELSE /\ rate_limit_lock' = FALSE
                /\ last_request_time' = clock
                /\ stampTime' = [stampTime EXCEPT ![t] = Some(clock)]
                /\ fpc' = [fpc EXCEPT ![t] = "connecting"]
                /\ UNCHANGED wake

\* web_fetch lines 227-234: validate url, then enter the rate limiter (or wait
\* for its lock) unless the caller opted out.  via = "tool" is the fetch tool
\* of mcp_server.py calling web_fetch(url, extract_mode).
web_fetch(t, u, extract_mode, rate_limit, via) ==
    LET args == [url |-> u, extract_mode |-> extract_mode,
                 rate_limit |-> rate_limit, via |-> via]
        verdict == validate_url(u)
    IN  /\ fpc[t] = "idle"
        /\ fargs' = [fargs EXCEPT ![t] = args]
        /\ IF verdict # "ok"
           THEN /\ fpc' = [fpc EXCEPT ![t] = "done"]
                /\ fresult' = [fresult EXCEPT ![t] = [kind |-> "error", message |-> verdict]]
                /\ fpayload' = [fpayload EXCEPT ![t] =
                                  fetch_payload(args, [kind |-> "error", message |-> verdict])]
                /\ UNCHANGED <<last_request_time, rate_limit_lock, waiters, wake,
                               lockTaken, stampTime>>
           ELSE /\ UNCHANGED <<fresult, fpayload>>
                /\ IF ~rate_limit
                   THEN /\ fpc' = [fpc EXCEPT ![t] = "connecting"]
                        /\ UNCHANGED <<last_request_time, rate_limit_lock, waiters, wake,
                                       lockTaken, stampTime>>
                   ELSE IF ~rate_limit_lock /\ waiters = <<>>
                   THEN /\ enter_critical_section(t)
                        /\ UNCHANGED waiters
                   ELSE /\ waiters' = Append(waiters, t)
                        /\ fpc' = [fpc EXCEPT ![t] = "waiting"]
                        /\ UNCHANGED <<last_request_time, rate_limit_lock, wake,
                                       lockTaken, stampTime>>
        /\ UNCHANGED <<clock, getTime, fenv, fraw, searchVars, extractVars>>

\* _rate_limit_lock hands itself to its longest-waiting caller (line 56).
lock_granted(t) ==
    /\ fpc[t] = "waiting"
    /\ ~rate_limit_lock
    /\ waiters # <<>> /\ Head(waiters) = t
    /\ waiters' = Tail(waiters)
    /\ enter_critical_section(t)
    /\ UNCHANGED <<clock, fargs, getTime, fenv, fraw, fresult, fpayload, searchVars, extractVars>>

\* _enforce_rate_limit lines 61-63: the sleep is over; write the timestamp and
\* leave the critical section.
sleep_done(t) ==
    /\ fpc[t] = "sleeping"
    /\ clock >= wake[t]
    /\ last_request_time' = clock
    /\ stampTime' = [stampTime EXCEPT ![t] = Some(clock)]
    /\ rate_limit_lock' = FALSE
    /\ fpc' = [fpc EXCEPT ![t] = "connecting"]
    /\ UNCHANGED <<clock, waiters, fargs, wake, lockTaken, getTime, fenv, fraw, fresult,
                   fpayload, searchVars, extractVars>>

\* _fetch_url lines 68-73: the client is built and connected, and the GET goes out.
issue_get(t) ==
    /\ fpc[t] = "connecting"
    /\ getTime' = [getTime EXCEPT ![t] = Some(clock)]
    /\ fpc' = [fpc EXCEPT ![t] = "awaiting"]
    /\ UNCHANGED <<clock, last_request_time, rate_limit_lock, waiters, fargs, wake,
                   lockTaken, stampTime, fenv, fraw, fresult, fpayload, searchVars, extractVars>>

\* _fetch_url line 73 failing before anything is sent (DNS, connect, TLS):
\* an httpx.HTTPError, which web_fetch line 262 turns into a WebFetchError.
connect_failed(t) ==
    LET result == [kind |-> "error", message |-> "HTTP error"] IN
    /\ fpc[t] = "connecting"
    /\ fpc' = [fpc EXCEPT ![t] = "done"]
    /\ fresult' = [fresult EXCEPT ![t] = result]
    /\ fpayload' = [fpayload EXCEPT ![t] = fetch_payload(fargs[t], result)]
    /\ UNCHANGED <<clock, last_request_time, rate_limit_lock, waiters, fargs, wake,
                   lockTaken, stampTime, getTime, fenv, fraw, searchVars, extractVars>>

\* The extraction libraries matter only on the paths that call them.
MarkdownEnvs(args, resp) ==
    IF fetch_url(resp).raises = "nothing" /\ args.extract_mode = "markdown"
    THEN MarkdownOutcomes ELSE {"unused"}

ArticleEnvs(args, resp, md) ==
    IF /\ fetch_url(resp).raises = "nothing"
       /\ \/ args.extract_mode = "article"
          \/ args.extract_mode = "markdown" /\ extract_markdown(md) = None
    THEN ArticleOutcomes ELSE {"unused"}

\* web_fetch lines 237-265 (and mcp_server.fetch lines 167-176): the answer
\* arrives, the content is extracted, the call returns or raises.
fetch_response(t, resp, md, art) ==
    LET result == fetch_outcome(fargs[t], resp, md, art) IN
    /\ fpc[t] = "awaiting"
    /\ md \in MarkdownEnvs(fargs[t], resp)
    /\ art \in ArticleEnvs(fargs[t], resp, md)
    /\ fenv' = [fenv EXCEPT ![t] = [markdown |-> md, article |-> art]]
    /\ fraw' = [fraw EXCEPT ![t] = <<resp, fetch_url(resp)>>]
    /\ fresult' = [fresult EXCEPT ![t] = result]
    /\ fpayload' = [fpayload EXCEPT ![t] = fetch_payload(fargs[t], result)]
    /\ fpc' = [fpc EXCEPT ![t] = "done"]
    /\ UNCHANGED <<clock, last_request_time, rate_limit_lock, waiters, fargs, wake,
                   lockTaken, stampTime, getTime, searchVars, extractVars>>

\* The caller has its result; its next call starts from a fresh frame.
fetch_return(t) ==
    /\ fpc[t] = "done"
    /\ fpc' = [fpc EXCEPT ![t] = "idle"]
    /\ fargs' = [fargs EXCEPT ![t] = NoArgs]
    /\ wake' = [wake EXCEPT ![t] = 0]
    /\ lockTaken' = [lockTaken EXCEPT ![t] = FALSE]
    /\ stampTime' = [stampTime EXCEPT ![t] = None]
    /\ getTime' = [getTime EXCEPT ![t] = None]
    /\ fenv' = [fenv EXCEPT ![t] = NoEnv]
    /\ fraw' = [fraw EXCEPT ![t] = NoRaw]
    /\ fresult' = [fresult EXCEPT ![t] = NoResult]
    /\ fpayload' = [fpayload EXCEPT ![t] = NoPayload]
    /\ UNCHANGED <<clock, last_request_time, rate_limit_lock, waiters, searchVars, extractVars>>

\* The CancelledError a cancelled or timed-out caller gets at its await.
Cancelled == [kind |-> "cancelled"]

\* cancel_sleep with the lock left held
cancel_sleep_lock_kept(t) ==
    /\ fpc[t] = "sleeping"
    /\ fpc' = [fpc EXCEPT ![t] = "done"]
    /\ fresult' = [fresult EXCEPT ![t] = Cancelled]
    /\ UNCHANGED <<clock, last_request_time, rate_limit_lock, waiters, fargs, wake,
                   lockTaken, stampTime, getTime, fenv, fraw, fpayload, searchVars,
                   extractVars>>

\* _enforce_rate_limit line 61 (or a timeout around the call) cancelled during
\* the sleep: CancelledError leaves the async with block of line 56, which
\* releases the lock; line 63 is not reached; web_fetch (line 234, outside its
\* try) and the fetch tool let the error through.
cancel_sleep(t) ==
    /\ fpc[t] = "sleeping"
    /\ rate_limit_lock' = FALSE
    /\ fpc' = [fpc EXCEPT ![t] = "done"]
    /\ fresult' = [fresult EXCEPT ![t] = Cancelled]
    /\ UNCHANGED <<clock, last_request_time, waiters, fargs, wake, lockTaken, stampTime,
                   getTime, fenv, fraw, fpayload, searchVars, extractVars>>

\* The caller is cancelled while it waits for the lock (line 56): it leaves
\* the lock's queue and the lock stays as it is.
cancel_wait(t) ==
    /\ fpc[t] = "waiting"
    /\ waiters' = SelectSeq(waiters, LAMBDA w : w # t)
    /\ fpc' = [fpc EXCEPT ![t] = "done"]
    /\ fresult' = [fresult EXCEPT ![t] = Cancelled]
    /\ UNCHANGED <<clock, last_request_time, rate_limit_lock, fargs, wake, lockTaken,
                   stampTime, getTime, fenv, fraw, fpayload, searchVars, extractVars>>

\* Time passes.
tick ==
    /\ clock < MaxClock
    /\ clock' = clock + 1
    /\ UNCHANGED <<last_request_time, rate_limit_lock, waiters, fpc, fargs, wake,
                   lockTaken, stampTime, getTime, fenv, fraw, fresult, fpayload, searchVars, extractVars>>

\* Time passes beyond MaxClock for as long as a caller's sleep has not ended.
sleep_tick ==
    /\ clock >= MaxClock
    /\ \E t \in Tasks : fpc[t] = "sleeping" /\ wake[t] > clock
    /\ clock' = clock + 1
    /\ UNCHANGED <<last_request_time, rate_limit_lock, waiters, fpc, fargs, wake,
                   lockTaken, stampTime, getTime, fenv, fraw, fresult, fpayload, searchVars,
                   extractVars>>

\* --------------------------------------------------------- SearXNGClient
Base == "http://searxng"

Min2(a, b) == IF a <= b THEN a ELSE b
Max2(a, b) == IF a >= b THEN a ELSE b

VALID_RECENCY_VALUES == {"all_time", "day", "week", "month", "year"}

\* The character classes of DOMAIN_FILTER_PATTERN, over the characters the
\* domain filters below are written in.
Alnum == {"a", "b", "1"}
AlnumHyphen == Alnum \cup {"-"}

\* One label, [a-zA-Z0-9]([a-zA-Z0-9\-]*[a-zA-Z0-9])?, matched from position i:
\* the positions right after each way of matching it.
LabelEnds(s, i) ==
    { j \in (i + 1)..(Len(s) + 1) :
        /\ s[i] \in Alnum
        /\ s[j - 1] \in Alnum
        /\ \A k \in i..(j - 1) : s[k] \in AlnumHyphen }

\* (\.label)* : every position reachable from `ends` by further dotted labels.
RECURSIVE DottedLabels(_, _)
DottedLabels(s, ends) ==
    LET more == ends \cup UNION { LabelEnds(s, e + 1) :
                                    e \in {x \in ends : x <= Len(s) /\ s[x] = "."} }
    IN  IF more = ends THEN ends ELSE DottedLabels(s, more)

\* Python's $ : the end of the string, or just before a newline that ends it.
AtDollar(s, p) ==
    \/ p = Len(s) + 1
    \/ p = Len(s) /\ s[p] = "\n"

\* DOMAIN_FILTER_PATTERN.match(s)
DOMAIN_FILTER_PATTERN(s) ==
    \E p \in DottedLabels(s, LabelEnds(s, 1)) : AtDollar(s, p)

\* `if domain_filter`: None and the empty string are both falsy.
truthy(domain_filter) == domain_filter # None /\ domain_filter[1] # <<>>

\* SearXNGClient.search lines 120-131: the three checks, in order.
search_check(u, query, domain_filter) ==
    IF u = "" THEN "SearXNG URL not configured"
    ELSE IF strip(query) = <<>> THEN "Search query cannot be empty"
    ELSE IF truthy(domain_filter) /\ ~DOMAIN_FILTER_PATTERN(domain_filter[1])
    THEN "Invalid domain_filter"
    ELSE "ok"

\* lines 134-136
coerce_recency(recency) ==
    IF recency \notin VALID_RECENCY_VALUES THEN "all_time" ELSE recency

\* line 139
SitePrefix == <<"s", "i", "t", "e", ":">>
search_query(domain_filter, query) ==
    IF truthy(domain_filter) THEN SitePrefix \o domain_filter[1] \o <<" ">> \o query
    ELSE query

\* lines 142-149, with all_time mapped to itself instead of to None
time_range_map_explicit(recency) == Some(recency)

\* lines 142-149
time_range_map(recency) ==
    IF recency = "all_time" THEN None ELSE Some(recency)

\* lines 151-157: the query parameters; time_range is a key only when set.
search_params(query, domain_filter, recency) ==
    LET base == [k \in {"q", "format", "categories"} |->
                    IF k = "q" THEN search_query(domain_filter, query)
                    ELSE IF k = "format" THEN <<"json">> ELSE <<"general">>]
        time_range == time_range_map(coerce_recency(recency))
    IN  IF time_range # None
        THEN [k \in DOMAIN base \cup {"time_range"} |->
                 IF k = "time_range" THEN <<time_range[1]>> ELSE base[k]]
        ELSE base

\* dict.get(key, default)
get(item, key, default) == IF key \in DOMAIN item THEN item[key] ELSE default

\* seq[:n], for any integer n
slice_to(seq, n) ==
    IF n >= 0 THEN SubSeq(seq, 1, Min2(n, Len(seq)))
    ELSE SubSeq(seq, 1, Max2(Len(seq) + n, 0))

\* lines 172-179 with a missing publishedDate defaulted like the other fields
search_result_date_defaulted(item) ==
    [title |-> get(item, "title", ""), url |-> get(item, "url", ""),
     snippet |-> get(item, "content", ""),
     published_date |-> Some(get(item, "publishedDate", ""))]

\* lines 172-179: one SearchResult
search_result(item) ==
    [title |-> get(item, "title", ""), url |-> get(item, "url", ""),
     snippet |-> get(item, "content", ""),
     published_date |-> IF "publishedDate" \in DOMAIN item
                        THEN Some(item["publishedDate"]) ELSE None]

\* lines 159-181: what search returns or raises once the answer is in.  A body
\* that is JSON but not an object holding a list of objects fails outside the
\* try block, with the exception Python raises there.
search_outcome(args, resp) ==
    IF resp.kind = "transport" THEN [kind |-> "error", message |-> "HTTP error"]
    ELSE IF resp.status # 200 THEN [kind |-> "error", message |-> "HTTP error"]
    ELSE IF resp.body = "not json" THEN [kind |-> "error", message |-> "Search failed"]
    ELSE IF resp.body = "array" THEN [kind |-> "exception", raises |-> "AttributeError"]
    ELSE IF resp.body = "results null" THEN [kind |-> "exception", raises |-> "TypeError"]
    ELSE IF resp.body = "item not object"
    THEN [kind |-> "exception", raises |-> "AttributeError"]
    ELSE LET taken == slice_to(resp.results, args.max_results) IN
         [kind |-> "ok", results |-> [i \in 1..Len(taken) |-> search_result(taken[i])]]

\* mcp_server.search line 104 without the lower bound
clamp_upper_only(max_results) == Min2(20, max_results)

\* mcp_server.search line 104
clamp(max_results) == Max2(1, Min2(20, max_results))

\* mcp_server.search lines 122-133: the payload, or the exception that is not
\* a WebSearchError and so leaves the tool function.
search_payload(args, result) ==
    IF args.via # "tool" THEN NoPayload
    ELSE IF result.kind = "ok" THEN [kind |-> "success", results |-> result.results]
    ELSE IF result.kind = "error" THEN [kind |-> "error", error |-> result.message]
    ELSE [kind |-> "exception", raises |-> result.raises]

\* ------------------------------------------------------ search: the inputs
Queries == {<<>>, <<" ">>, <<"q">>}

\* Domain filters callers pass, besides None: the empty string, well-formed
\* domains, one with a trailing newline, and malformed ones.
DomainFilters ==
    { <<>>,
      <<"a">>, <<"a", ".", "b">>, <<"a", "-", "1", ".", "b">>,
      <<"a", "\n">>,
      <<"-", "a">>, <<"a", "-">>, <<"a", ".">>, <<".", "a">>,
      <<"a", ".", ".", "b">>, <<"a", " ", "b">>, <<"a", "!">> }

OptionalDomainFilters == {None} \cup {Some(d) : d \in DomainFilters}

Recencies == VALID_RECENCY_VALUES \cup {"hour"}

\* max_results as library callers and as tool callers pass it
ClientMaxResults == (0 - 2)..(MaxResultsLen + 1)
ToolMaxResults == {0 - 1, 0, 1, 5, 20, 21, 25}

\* Entries of the backend's results array: every field, no date, only a url.
ResultItems ==
    { [title |-> "T1", url |-> "U1", content |-> "C1", publishedDate |-> "D1"],
      [title |-> "", url |-> "U2", content |-> "C2"],
      [url |-> "U3"] }

RECURSIVE SeqsUpTo(_, _)
SeqsUpTo(S, n) ==
    IF n = 0 THEN {<<>>}
    ELSE LET shorter == SeqsUpTo(S, n - 1) IN
         shorter \cup {Append(q, x) : q \in shorter, x \in S}

\* What the backend answers to GET <base>/search.
SearchResponses ==
    { [kind |-> "transport", status |-> 0, body |-> "", results |-> <<>>],
      [kind |-> "response", status |-> 500, body |-> "", results |-> <<>>],
      [kind |-> "response", status |-> 200, body |-> "not json", results |-> <<>>],
      [kind |-> "response", status |-> 200, body |-> "array", results |-> <<>>],
      [kind |-> "response", status |-> 200, body |-> "results null", results |-> <<>>],
      [kind |-> "response", status |-> 200, body |-> "item not object", results |-> <<>>] }
    \cup { [kind |-> "response", status |-> 200, body |-> "object", results |-> r] :
             r \in SeqsUpTo(ResultItems, MaxResultsLen) }

HealthzAnswers == {"200", "503", "unreachable"}


NoSearchArgs == [query |-> <<>>, max_results |-> 5, domain_filter |-> None,
                 recency |-> "all_time", via |-> "library"]

\* SearXNGClient.__init__ lines 64-67 and mcp_server line 62: the client is
\* built once, with or without a base url.
SearchInit ==
    /\ url \in {"", Base}
    /\ health_checked = FALSE
    /\ is_healthy = FALSE
    /\ backend = "200"
    /\ healthzGets = <<>>
    /\ healthReturns = <<>>
    /\ spc = "idle"
    /\ sargs = NoSearchArgs
    /\ toolArgs = None
    /\ srequest = None
    /\ sresponse = None
    /\ sresult = NoResult
    /\ spayload = NoPayload

\* ------------------------------------------------- html text: characters
UpperChars == <<"A", "B", "C", "D", "E", "F", "G", "H", "I", "J", "K", "L", "M", "N", "O", "P", "Q", "R", "S", "T", "U", "V", "W", "X", "Y", "Z">>
LowerChars == <<"a", "b", "c", "d", "e", "f", "g", "h", "i", "j", "k", "l", "m", "n", "o", "p", "q", "r", "s", "t", "u", "v", "w", "x", "y", "z">>
DigitAndUnderscore == {"0", "1", "2", "3", "4", "5", "6", "7", "8", "9", "_"}

\* re.IGNORECASE compares characters by their lower-case form.
lower(c) ==
    IF \E n \in 1..Len(UpperChars) : UpperChars[n] = c
    THEN LowerChars[CHOOSE n \in 1..Len(UpperChars) : UpperChars[n] = c]
    ELSE c

\* \w
WordChars ==
    {UpperChars[n] : n \in 1..Len(UpperChars)}
    \cup {LowerChars[n] : n \in 1..Len(LowerChars)}
    \cup DigitAndUnderscore

\* ["\']
QuoteChars == {"\"", "'"}

\* The least element of a non-empty set of positions.
first(S) == CHOOSE x \in S : \A y \in S : x <= y
\* The greatest one.
last(S) == CHOOSE x \in S : \A y \in S : x >= y

\* The literal lit matches in s at position i (ignoring case if ignorecase).
match_at(s, i, lit, ignorecase) ==
    /\ i >= 1
    /\ i + Len(lit) - 1 <= Len(s)
    /\ \A k \in 1..Len(lit) :
          IF ignorecase THEN lower(s[i + k - 1]) = lower(lit[k])
          ELSE s[i + k - 1] = lit[k]

\* The first position at or after i where lit matches in s; 0 if there is none.
find(s, i, lit, ignorecase) ==
    LET hits == {k \in i..Len(s) : match_at(s, k, lit, ignorecase)} IN
    IF hits = {} THEN 0 ELSE first(hits)

\* The character of s at position i is one of S.
char_in(s, i, S) == i >= 1 /\ i <= Len(s) /\ s[i] \in S

\* [^>]* can match exactly s[a..b].
no_gt(s, a, b) == \A k \in a..b : s[k] # ">"

LtScript == <<"<", "s", "c", "r", "i", "p", "t">>
EndScript == <<"<", "/", "s", "c", "r", "i", "p", "t", ">">>
LtStyle == <<"<", "s", "t", "y", "l", "e">>
EndStyle == <<"<", "/", "s", "t", "y", "l", "e", ">">>
LtTitle == <<"<", "t", "i", "t", "l", "e">>
EndTitle == <<"<", "/", "t", "i", "t", "l", "e", ">">>
CommentOpen == <<"<", "!", "-", "-">>
CommentClose == <<"-", "-", ">">>
LtMeta == <<"<", "m", "e", "t", "a">>
NameEq == <<"n", "a", "m", "e", "=">>
Description == <<"d", "e", "s", "c", "r", "i", "p", "t", "i", "o", "n">>
PropertyEq == <<"p", "r", "o", "p", "e", "r", "t", "y", "=">>
OgColon == <<"o", "g", ":">>
ContentEq == <<"c", "o", "n", "t", "e", "n", "t", "=">>

\* The match of  open[^>]*>[\s\S]*?close  (re.IGNORECASE) that starts at i:
\* <<position of the > closing the opening tag, position where close begins>>,
\* or <<>> if the pattern does not match at i.
block_at(s, i, open, close) ==
    IF ~match_at(s, i, open, TRUE) THEN <<>>
    ELSE LET gt == find(s, i + Len(open), <<">">>, FALSE) IN
         IF gt = 0 THEN <<>>
         ELSE LET c == find(s, gt + 1, close, TRUE) IN
              IF c = 0 THEN <<>> ELSE <<gt, c>>

\* The position of the last character of the pattern's match starting at i;
\* 0 if the pattern does not match at i.  The patterns of _regex_extract:
\*   "script"      <script[^>]*>[\s\S]*?</script>   (re.IGNORECASE)
\*   "style"       <style[^>]*>[\s\S]*?</style>     (re.IGNORECASE)
\*   "comment"     <!--[\s\S]*?-->
\*   "tag"         <[^>]+>
\*   "whitespace"  \s+
match_end(pattern, s, i) ==
    CASE pattern = "script" ->
           LET m == block_at(s, i, LtScript, EndScript) IN
           IF m = <<>> THEN 0 ELSE m[2] + Len(EndScript) - 1
      [] pattern = "style" ->
           LET m == block_at(s, i, LtStyle, EndStyle) IN
           IF m = <<>> THEN 0 ELSE m[2] + Len(EndStyle) - 1
      [] pattern = "comment" ->
           IF ~match_at(s, i, CommentOpen, FALSE) THEN 0
           ELSE LET c == find(s, i + Len(CommentOpen), CommentClose, FALSE) IN
                IF c = 0 THEN 0 ELSE c + Len(CommentClose) - 1
      [] pattern = "tag" ->
           IF char_in(s, i, {"<"}) /\ i + 1 <= Len(s) /\ s[i + 1] # ">"
           THEN find(s, i + 2, <<">">>, FALSE)
           ELSE 0
      [] pattern = "whitespace" ->
           IF ~char_in(s, i, Whitespace) THEN 0
           ELSE LET stops == {k \in i..Len(s) : s[k] \notin Whitespace} IN
                IF stops = {} THEN Len(s) ELSE first(stops) - 1

\* re.sub(pattern, repl, s) from position pos on: every leftmost
\* non-overlapping match is replaced by repl; the rest is copied.
RECURSIVE re_sub(_, _, _, _)
re_sub(pattern, repl, s, pos) ==
    LET starts == {i \in pos..Len(s) : match_end(pattern, s, i) # 0} IN
    IF starts = {} THEN SubSeq(s, pos, Len(s))
    ELSE LET i == first(starts) IN
         SubSeq(s, pos, i - 1) \o repl
             \o re_sub(pattern, repl, s, match_end(pattern, s, i) + 1)

\* The character references html.unescape decodes here: <<reference, character>>.
Entities ==
    << <<<<"&", "a", "m", "p", ";">>, "&">>,
       <<<<"&", "l", "t", ";">>, "<">>,
       <<<<"&", "g", "t", ";">>, ">">>,
       <<<<"&", "q", "u", "o", "t", ";">>, "\"">> >>

\* html.unescape: one pass from the left, decoded text is not decoded again.
RECURSIVE unescape(_)
unescape(s) ==
    IF s = <<>> THEN <<>>
    ELSE LET hits == {e \in 1..Len(Entities) : match_at(s, 1, Entities[e][1], FALSE)} IN
         IF hits = {} THEN <<Head(s)>> \o unescape(Tail(s))
         ELSE LET e == first(hits) IN
              <<Entities[e][2]>> \o unescape(SubSeq(s, Len(Entities[e][1]) + 1, Len(s)))

\* The longest text _regex_extract returns before it appends "...".
MAX_REGEX_TEXT == 20000

\* _regex_extract
regex_extract(html_content) ==
    LET no_script == re_sub("script", <<>>, html_content, 1)
        no_style == re_sub("style", <<>>, no_script, 1)
        no_comment == re_sub("comment", <<>>, no_style, 1)
        no_tags == re_sub("tag", <<" ">>, no_comment, 1)
        decoded == unescape(no_tags)
        text == strip(re_sub("whitespace", <<" ">>, decoded, 1))
    IN  IF Len(text) > MAX_REGEX_TEXT
        THEN SubSeq(text, 1, MAX_REGEX_TEXT) \o <<".", ".", ".">>
        ELSE text

\* ------------------------------------------------------ _extract_metadata
\* re.search(r"<title[^>]*>(.*?)</title>", re.IGNORECASE | re.DOTALL):
\* group(1) of the leftmost match as an optional value.
title_search(s) ==
    LET starts == {i \in 1..Len(s) : block_at(s, i, LtTitle, EndTitle) # <<>>} IN
    IF starts = {} THEN None
    ELSE LET m == block_at(s, first(starts), LtTitle, EndTitle) IN
         Some(SubSeq(s, m[1] + 1, m[2] - 1))

\* name=["\']description["\'] at position p: the position after it, else 0.
name_description_at(s, p) ==
    IF /\ match_at(s, p, NameEq, TRUE)
       /\ char_in(s, p + Len(NameEq), QuoteChars)
       /\ match_at(s, p + Len(NameEq) + 1, Description, TRUE)
       /\ char_in(s, p + Len(NameEq) + 1 + Len(Description), QuoteChars)
    THEN p + Len(NameEq) + Len(Description) + 2
    ELSE 0

\* The run of \w characters that starts at position i.
word_at(s, i) ==
    LET stops == {k \in i..Len(s) : s[k] \notin WordChars} IN
    SubSeq(s, i, IF stops = {} THEN Len(s) ELSE first(stops) - 1)

\* property=["\']og:(\w+)["\'] at position p: the position after it, else 0.
property_og_at(s, p) ==
    LET w == p + Len(PropertyEq) + 1 + Len(OgColon) IN
    IF /\ match_at(s, p, PropertyEq, TRUE)
       /\ char_in(s, p + Len(PropertyEq), QuoteChars)
       /\ match_at(s, p + Len(PropertyEq) + 1, OgColon, TRUE)
       /\ word_at(s, w) # <<>>
       /\ char_in(s, w + Len(word_at(s, w)), QuoteChars)
    THEN w + Len(word_at(s, w)) + 1
    ELSE 0

\* The (\w+) of property_og_at.
property_og_name(s, p) == word_at(s, p + Len(PropertyEq) + 1 + Len(OgColon))

\* content=["\']([^"\']*)["\'] at position q: the position of the closing
\* quote, else 0.
content_at(s, q) ==
    IF match_at(s, q, ContentEq, TRUE) /\ char_in(s, q + Len(ContentEq), QuoteChars)
    THEN LET quotes == {r \in (q + Len(ContentEq) + 1)..Len(s) : s[r] \in QuoteChars} IN
         IF quotes = {} THEN 0 ELSE first(quotes)
    ELSE 0

\* The attribute that names the field: "description" or "og".
key_at(field, s, p) ==
    IF field = "description" THEN name_description_at(s, p) ELSE property_og_at(s, p)

\* <meta[^>]*KEY[^>]*content=["\']([^"\']*)["\'] (re.IGNORECASE) starting at
\* i, KEY being the attribute of the field: <<position of KEY, position of
\* content=>> as the greedy [^>]* pick them (the last KEY that still leads to
\* a match, then the last content=), or <<>> if there is no match at i.
meta_at(field, s, i) ==
    IF ~match_at(s, i, LtMeta, TRUE) THEN <<>>
    ELSE LET from == i + Len(LtMeta)
             contents(p) == {q \in key_at(field, s, p)..Len(s) :
                               /\ no_gt(s, key_at(field, s, p), q - 1)
                               /\ content_at(s, q) # 0}
             keys == {p \in from..Len(s) :
                        /\ no_gt(s, from, p - 1)
                        /\ key_at(field, s, p) # 0
                        /\ contents(p) # {}}
         IN  IF keys = {} THEN <<>>
             ELSE <<last(keys), last(contents(last(keys)))>>

\* group of ([^"\']*) for a match <<p, q>> of meta_at.
meta_value(s, m) ==
    SubSeq(s, m[2] + Len(ContentEq) + 1, content_at(s, m[2]) - 1)

\* re.search for the description tag: group(1) of the leftmost match.
description_search(s) ==
    LET starts == {i \in 1..Len(s) : meta_at("description", s, i) # <<>>} IN
    IF starts = {} THEN None
    ELSE Some(meta_value(s, meta_at("description", s, first(starts))))

\* re.findall for the og tags from position pos on: the <<prop, value>> pairs
\* of the leftmost non-overlapping matches, in document order.
RECURSIVE og_findall(_, _)
og_findall(s, pos) ==
    LET starts == {i \in pos..Len(s) : meta_at("og", s, i) # <<>>} IN
    IF starts = {} THEN <<>>
    ELSE LET m == meta_at("og", s, first(starts)) IN
         <<<<property_og_name(s, m[1]), meta_value(s, m)>>>>
             \o og_findall(s, content_at(s, m[2]) + 1)

\* metadata[k] = v on a dict kept as its <<key, value>> items in insertion
\* order: a key already present keeps its place and takes the new value.
dict_set(d, k, v) ==
    IF \E n \in 1..Len(d) : d[n][1] = k
    THEN [n \in 1..Len(d) |-> IF d[n][1] = k THEN <<k, v>> ELSE d[n]]
    ELSE Append(d, <<k, v>>)

Title == <<"t", "i", "t", "l", "e">>
OgUnderscore == <<"o", "g", "_">>
ColonSpace == <<":", " ">>

\* for prop, value in og_matches: metadata[f"og_{prop}"] = html.unescape(value.strip())
RECURSIVE set_og(_, _)
set_og(d, og_matches) ==
    IF og_matches = <<>> THEN d
    ELSE set_og(dict_set(d, OgUnderscore \o og_matches[1][1],
                         unescape(strip(og_matches[1][2]))),
                Tail(og_matches))

\* "\n".join(lines)
RECURSIVE join_lines(_)
join_lines(lines) ==
    IF lines = <<>> THEN <<>>
    ELSE IF Len(lines) = 1 THEN lines[1]
    ELSE lines[1] \o <<"\n">> \o join_lines(Tail(lines))

\* f"{k}: {v}"
item_line(item) == item[1] \o ColonSpace \o item[2]

\* _extract_metadata
extract_metadata(html_content) ==
    LET title_match == title_search(html_content)
        with_title ==
            IF title_match # None
            THEN dict_set(<<>>, Title, unescape(strip(title_match[1])))
            ELSE <<>>
        desc_match == description_search(html_content)
        with_description ==
            IF desc_match # None
            THEN dict_set(with_title, Description, unescape(strip(desc_match[1])))
            ELSE with_title
        metadata == set_og(with_description, og_findall(html_content, 1))
    IN  join_lines([n \in 1..Len(metadata) |-> item_line(metadata[n])])

\* ------------------------------------------ the documents given to them
\* Pieces of a page head: a title, a description, og tags (og:a twice, og:b
\* once, the last one in capitals and single quotes), and body text.
MetadataPieces ==
    { <<"<", "t", "i", "t", "l", "e", ">", "T", "<", "/", "t", "i", "t", "l", "e", ">">>,
      <<"<", "m", "e", "t", "a", " ", "n", "a", "m", "e", "=", "\"", "d", "e", "s", "c", "r", "i", "p", "t", "i", "o", "n", "\"", " ", "c", "o", "n", "t", "e", "n", "t", "=", "\"", "D", "\"", ">">>,
      <<"<", "m", "e", "t", "a", " ", "p", "r", "o", "p", "e", "r", "t", "y", "=", "\"", "o", "g", ":", "a", "\"", " ", "c", "o", "n", "t", "e", "n", "t", "=", "\"", "1", "\"", ">">>,
      <<"<", "m", "e", "t", "a", " ", "p", "r", "o", "p", "e", "r", "t", "y", "=", "\"", "o", "g", ":", "a", "\"", " ", "c", "o", "n", "t", "e", "n", "t", "=", "\"", "2", "\"", ">">>,
      <<"<", "M", "E", "T", "A", " ", "P", "R", "O", "P", "E", "R", "T", "Y", "=", "'", "o", "g", ":", "b", "'", " ", "C", "O", "N", "T", "E", "N", "T", "=", "'", " ", "&", "a", "m", "p", ";", " ", "'", ">">>,
      <<"<", "p", ">", "x", "<", "/", "p", ">">> }

\* Pieces of a page body, matched or not: tags of script and style blocks, an
\* end tag with a space before its >, comment delimiters, a tag, an entity,
\* text.
RegexPieces ==
    { <<"<", "s", "c", "r", "i", "p", "t", ">">>,
      <<"<", "/", "s", "c", "r", "i", "p", "t", ">">>,
      <<"<", "/", "S", "C", "R", "I", "P", "T", " ", ">">>,
      <<"<", "s", "t", "y", "l", "e", ">">>,
      <<"<", "/", "s", "t", "y", "l", "e", ">">>,
      <<"<", "!", "-", "-">>,
      <<"-", "-", ">">>,
      <<"<", "b", ">">>,
      <<"&", "l", "t", ";">>,
      <<" ">>,
      <<"k">> }

\* Most pieces in a document.
MaxPieces == 3

\* The concatenation of a sequence of pieces.
RECURSIVE concat(_)
concat(pieces) == IF pieces = <<>> THEN <<>> ELSE Head(pieces) \o concat(Tail(pieces))

MetadataDocuments == {concat(d) : d \in SeqsUpTo(MetadataPieces, MaxPieces)}
RegexDocuments == {concat(d) : d \in SeqsUpTo(RegexPieces, MaxPieces)}

\* No extractor has been called.
NoExtract == [by |-> "none", value |-> <<>>]

ExtractInit ==
    /\ html = <<>>
    /\ extracted = NoExtract

Init == FetchInit /\ SearchInit /\ ExtractInit

\* The fetch pipeline alone: no search client has been configured.
InitFetch == Init /\ url = ""

\* ---------------------------------------------------- search: the actions
\* The WebSearchError the checks of lines 120-131 raise; the message of the
\* domain filter's check quotes the filter.
search_error(verdict, domain_filter) ==
    [kind |-> "error", message |-> verdict,
     quotes |-> IF verdict = "Invalid domain_filter" THEN domain_filter ELSE None]

\* SearXNGClient.search lines 120-161, up to the point where the GET is awaited.
do_search(args) ==
    LET verdict == search_check(url, args.query, args.domain_filter)
        failure == search_error(verdict, args.domain_filter)
    IN  /\ sargs' = args
        /\ IF verdict # "ok"
           THEN /\ sresult' = failure
                /\ spayload' = search_payload(args, failure)
                /\ spc' = "done"
                /\ UNCHANGED srequest
           ELSE /\ srequest' = Some(search_params(args.query, args.domain_filter,
                                                  args.recency))
                /\ spc' = "awaiting"
                /\ UNCHANGED <<sresult, spayload>>

\* A library caller calls SearXNGClient.search.
client_search(query, max_results, domain_filter, recency) ==
    /\ spc = "idle"
    /\ do_search([query |-> query, max_results |-> max_results,
                  domain_filter |-> domain_filter, recency |-> recency,
                  via |-> "library"])
    /\ UNCHANGED <<url, health_checked, is_healthy, backend, healthzGets, healthReturns,
                   toolArgs, sresponse, fetchVars, extractVars>>

\* mcp_server.search lines 104-120: clamp, refuse when unconfigured, else call
\* the client's search.
tool_search(query, max_results, domain_filter, recency) ==
    /\ spc = "idle"
    /\ toolArgs' = Some(max_results)
    /\ IF url = ""
       THEN /\ spayload' = [kind |-> "error", error |-> "SearXNG not configured"]
            /\ spc' = "done"
            /\ UNCHANGED <<sargs, srequest, sresult>>
       ELSE do_search([query |-> query, max_results |-> clamp(max_results),
                       domain_filter |-> domain_filter, recency |-> recency,
                       via |-> "tool"])
    /\ UNCHANGED <<url, health_checked, is_healthy, backend, healthzGets, healthReturns,
                   sresponse, fetchVars, extractVars>>

\* SearXNGClient.search lines 161-181 (and mcp_server.search lines 122-133):
\* the answer arrives and is mapped.
search_response(resp) ==
    LET result == search_outcome(sargs, resp) IN
    /\ spc = "awaiting"
    /\ sresponse' = Some(resp)
    /\ sresult' = result
    /\ spayload' = search_payload(sargs, result)
    /\ spc' = "done"
    /\ UNCHANGED <<url, health_checked, is_healthy, backend, healthzGets, healthReturns,
                   sargs, toolArgs, srequest, fetchVars, extractVars>>

\* The caller has its result; the next call starts afresh.
search_return ==
    /\ spc = "done"
    /\ spc' = "idle"
    /\ sargs' = NoSearchArgs
    /\ toolArgs' = None
    /\ srequest' = None
    /\ sresponse' = None
    /\ sresult' = NoResult
    /\ spayload' = NoPayload
    /\ UNCHANGED <<url, health_checked, is_healthy, backend, healthzGets, healthReturns,
                   fetchVars, extractVars>>

\* check_health lines 84-85 with the cached answer never used
health_never_cached == FALSE

\* check_health lines 84-85: a cached answer is returned as it is.
health_cached == health_checked

\* SearXNGClient.check_health lines 81-96.
do_check_health(caller) ==
    /\ IF url = ""
       THEN /\ healthReturns' = Append(healthReturns, [by |-> caller, value |-> FALSE])
            /\ UNCHANGED <<health_checked, is_healthy, healthzGets>>
       ELSE IF health_cached
       THEN /\ healthReturns' = Append(healthReturns, [by |-> caller, value |-> is_healthy])
            /\ UNCHANGED <<health_checked, is_healthy, healthzGets>>
       ELSE /\ healthzGets' = Append(healthzGets, backend)
            /\ is_healthy' = (backend = "200")
            /\ health_checked' = TRUE
            /\ healthReturns' = Append(healthReturns,
                                        [by |-> caller, value |-> (backend = "200")])
    /\ UNCHANGED <<url, backend, spc, sargs, toolArgs, srequest, sresponse, sresult,
                   spayload, fetchVars, extractVars>>

\* A library caller calls check_health (calls are recorded up to MaxHealthCalls).
check_health ==
    /\ Len(healthReturns) < MaxHealthCalls
    /\ do_check_health("check_health")

\* mcp_server.check_status lines 186-193: searxng_healthy is check_health()
\* of the shared client (False without a GET when it is not configured).
check_status ==
    /\ Len(healthReturns) < MaxHealthCalls
    /\ do_check_health("check_status")

\* The backend goes up or down.
backend_change(answer) ==
    /\ answer # backend
    /\ backend' = answer
    /\ UNCHANGED <<url, health_checked, is_healthy, healthzGets, healthReturns, spc,
                   sargs, toolArgs, srequest, sresponse, sresult, spayload, fetchVars, extractVars>>

\* ------------------------------------------------------- specifications
\* The arguments of web_fetch calls made one after another; the fetch tool
\* always passes rate_limit = True.
FetchCallers == {<<TRUE, "library">>, <<FALSE, "library">>, <<TRUE, "tool">>}

\* One caller making web_fetch calls one after another, as the fetch tool's
\* run_until_complete does.
NextFetch ==
    \/ \E u \in Urls, m \in ExtractModes, c \in FetchCallers :
           web_fetch(1, u, m, c[1], c[2])
    \/ sleep_done(1)
    \/ issue_get(1)
    \/ connect_failed(1)
    \/ \E resp \in FetchResponses, md \in MarkdownOutcomes \cup {"unused"},
          art \in ArticleOutcomes \cup {"unused"} :
           fetch_response(1, resp, md, art)
    \/ fetch_return(1)
    \/ tick

SpecFetch == InitFetch /\ [][NextFetch]_vars

\* Concurrent library callers of web_fetch: a url that passes
\* validation or one that does not, with and without the rate limiter.
LimiterUrls == {<<"f", "t", "p", ":", "/", "/", "a">>, HttpsPrefix \o <<"a">>}
\* The answers they get: the GET fails, or a page comes back.
LimiterResponses ==
    { [kind |-> "transport", status |-> 0, content_length |-> None],
      [kind |-> "response", status |-> 200, content_length |-> None] }

NextLimiter ==
    \/ \E t \in Tasks, u \in LimiterUrls, rl \in BOOLEAN :
           web_fetch(t, u, "raw", rl, "library")
    \/ \E t \in Tasks : lock_granted(t)
    \/ \E t \in Tasks : sleep_done(t)
    \/ \E t \in Tasks : issue_get(t)
    \/ \E t \in Tasks : connect_failed(t)
    \/ \E t \in Tasks, resp \in LimiterResponses :
           fetch_response(t, resp, "unused", "unused")
    \/ \E t \in Tasks : fetch_return(t)
    \/ tick

SpecLimiter == InitFetch /\ [][NextLimiter]_vars

\* The rate limiter under fair scheduling: rate-limited calls that start
\* before MaxClock, fail to connect once past the limiter, and may be
\* cancelled at either await of _enforce_rate_limit.
FairUrl == HttpsPrefix \o <<"a">>

NextLimiterFair ==
    \/ \E t \in Tasks : clock < MaxClock /\ web_fetch(t, FairUrl, "raw", TRUE, "client")
    \/ \E t \in Tasks : lock_granted(t)
    \/ \E t \in Tasks : sleep_done(t)
    \/ \E t \in Tasks : cancel_sleep(t)
    \/ \E t \in Tasks : cancel_wait(t)
    \/ \E t \in Tasks : connect_failed(t)
    \/ \E t \in Tasks : fetch_return(t)
    \/ tick
    \/ sleep_tick

\* The event loop runs a caller whose lock future or sleep timer has
\* completed, and time passes.
LimiterFairness ==
    /\ \A t \in Tasks : WF_vars(lock_granted(t)) /\ WF_vars(sleep_done(t))
    /\ WF_vars(tick)
    /\ WF_vars(sleep_tick)

SpecLimiterFair == InitFetch /\ [][NextLimiterFair]_vars /\ LimiterFairness

\* One SearXNGClient, searched directly and through the search tool.
NextSearch ==
    \/ \E q \in Queries, m \in ClientMaxResults, d \in OptionalDomainFilters,
          r \in Recencies : client_search(q, m, d, r)
    \/ \E q \in Queries, m \in ToolMaxResults, d \in OptionalDomainFilters,
          r \in Recencies : tool_search(q, m, d, r)
    \/ \E resp \in SearchResponses : search_response(resp)
    \/ search_return

SpecSearch == Init /\ [][NextSearch]_vars

\* One SearXNGClient whose health is asked for, directly and through the
\* check_status tool, while the backend goes up and down.
NextHealth ==
    \/ check_health
    \/ check_status
    \/ \E answer \in HealthzAnswers : backend_change(answer)

SpecHealth == Init /\ [][NextHealth]_vars

\* ------------------------------------------------- the extractors alone
\* web_fetch line 243: content = _extract_metadata(html_content)
call_extract_metadata ==
    /\ extracted.by = "none"
    /\ extracted' = [by |-> "_extract_metadata", value |-> extract_metadata(html)]
    /\ UNCHANGED <<html, fetchVars, searchVars>>

\* _extract_article line 142: return _regex_extract(html_content)
call_regex_extract ==
    /\ extracted.by = "none"
    /\ extracted' = [by |-> "_regex_extract", value |-> regex_extract(html)]
    /\ UNCHANGED <<html, fetchVars, searchVars>>

\* _extract_metadata on every document of MetadataDocuments.
InitMetadata ==
    /\ FetchInit /\ SearchInit /\ url = ""
    /\ html \in MetadataDocuments
    /\ extracted = NoExtract

NextMetadata == call_extract_metadata

SpecMetadata == InitMetadata /\ [][NextMetadata]_vars

\* _regex_extract on every document of RegexDocuments.
InitRegex ==
    /\ FetchInit /\ SearchInit /\ url = ""
    /\ html \in RegexDocuments
    /\ extracted = NoExtract

NextRegex == call_regex_extract

SpecRegex == InitRegex /\ [][NextRegex]_vars

\* ------------------------------------------------------------ the claims
Abs(n) == IF n < 0 THEN 0 - n ELSE n

\* C1: any two concurrent web_fetch calls made with rate_limit=True issue
\* their HTTP GETs at least MIN_REQUEST_INTERVAL apart.
C1_GetsSpaced ==
    \A s \in Tasks, t \in Tasks :
        ( /\ s # t
          /\ fargs[s].rate_limit /\ fargs[t].rate_limit
          /\ getTime[s] # None /\ getTime[t] # None )
        => Abs(getTime[s][1] - getTime[t][1]) >= MIN_REQUEST_INTERVAL

\* A url is blank when it holds nothing but whitespace.
Blank(s) == \A i \in 1..Len(s) : s[i] \in Whitespace
BeginsWith(s, p) == Len(s) >= Len(p) /\ \A i \in 1..Len(p) : s[i] = p[i]
InvalidUrl(u) == Blank(u) \/ ~(BeginsWith(u, HttpPrefix) \/ BeginsWith(u, HttpsPrefix))

\* C2: a web_fetch call whose url is blank or does not begin with http:// or
\* https:// has failed with an invalid-input WebFetchError, has issued no GET,
\* has not held the rate limiter's lock and has not written the last-request
\* timestamp, whatever rate_limit is.
C2_InvalidUrlRejectedFirst ==
    \A t \in Tasks :
        (fpc[t] # "idle" /\ InvalidUrl(fargs[t].url))
        => /\ fpc[t] = "done"
           /\ fresult[t].kind = "error"
           /\ fresult[t].message \in {"URL cannot be empty",
                                      "URL must start with http:// or https://"}
           /\ getTime[t] = None
           /\ ~lockTaken[t]
           /\ stampTime[t] = None

\* A rate-limited call with a foreign scheme has been rejected while the clock
\* stood within MIN_REQUEST_INTERVAL of the last timestamp.
C2_Witness ==
    \E t \in Tasks :
        /\ fpc[t] = "done"
        /\ fargs[t].rate_limit
        /\ ~Blank(fargs[t].url) /\ InvalidUrl(fargs[t].url)
        /\ fresult[t].message = "URL must start with http:// or https://"
        /\ last_request_time > 0
        /\ clock - last_request_time < MIN_REQUEST_INTERVAL

\* C3: the extract_mode of a successful web_fetch is the mode that produced the
\* content: the requested mode, except that a markdown request whose delegate
\* yields no markdown (unavailable, raising, or a result without markdown) gets
\* the article extractor's content labelled article; a result labelled markdown
\* holds the markdown delegate's content.
C3_ModeIsProducer ==
    \A t \in Tasks :
        fresult[t].kind = "ok"
        => LET asked == fargs[t].extract_mode
               r == fresult[t]
               article == {"trafilatura(html)", "regex_extract(html)"}
           IN  /\ asked # "markdown" => r.extract_mode = asked
               /\ (asked = "markdown" /\ fenv[t].markdown = "text")
                  => r.extract_mode = "markdown"
               /\ (asked = "markdown" /\ fenv[t].markdown # "text")
                  => (r.extract_mode = "article" /\ r.content \in article)
               /\ r.extract_mode = "markdown" <=> r.content = "markitdown(html)"
               /\ r.extract_mode = "article" <=> r.content \in article
               /\ r.extract_mode = "raw" <=> r.content = "html[:50000]"
               /\ r.extract_mode = "metadata" <=> r.content = "extract_metadata(html)"

\* A markdown request whose delegate was unavailable has returned.
C3_Witness ==
    \E t \in Tasks :
        /\ fresult[t].kind = "ok"
        /\ fargs[t].extract_mode = "markdown"
        /\ fenv[t].markdown = "unavailable"
        /\ fresult[t].extract_mode = "article"

\* SearXNGClient.search has been called (the search tool does not call it for
\* an unconfigured client).
SearchCalled == spc # "idle" /\ ~(toolArgs # None /\ url = "")

\* The domain grammar: dot-separated labels, each non-empty, of letters, digits
\* and hyphens, with no hyphen first or last in a label.
DomainGrammar(d) ==
    /\ d # <<>>
    /\ \A i \in 1..Len(d) : d[i] \in AlnumHyphen \cup {"."}
    /\ d[1] \in Alnum /\ d[Len(d)] \in Alnum
    /\ \A i \in 2..(Len(d) - 1) : d[i] = "." => (d[i - 1] \in Alnum /\ d[i + 1] \in Alnum)

SearchFailedWith(message) ==
    /\ spc = "done"
    /\ sresult.kind = "error"
    /\ sresult.message = message
    /\ srequest = None

\* C4: search checks its preconditions in order and sends nothing when one
\* fails: no base url, then a blank query, then an invalid domain filter; the
\* GET is issued only when all three pass.  (A filter that is None or empty
\* counts as no filter here.)
C4_ChecksInOrder ==
    SearchCalled
    => IF url = "" THEN SearchFailedWith("SearXNG URL not configured")
       ELSE IF Blank(sargs.query) THEN SearchFailedWith("Search query cannot be empty")
       ELSE IF truthy(sargs.domain_filter) /\ ~DomainGrammar(sargs.domain_filter[1])
       THEN SearchFailedWith("Invalid domain_filter")
       ELSE srequest # None

\* C5: with a configured client and a non-blank query, a non-empty domain
\* filter d that matches the grammar gives the query 'site:' + d + ' ' + query;
\* one that does not match fails with an invalid-input error quoting d and no
\* request; without a filter the query goes out as given.
C5_DomainFilterChecked ==
    (SearchCalled /\ url # "" /\ ~Blank(sargs.query))
    => LET d == sargs.domain_filter IN
       IF d = None THEN srequest # None /\ srequest[1]["q"] = sargs.query
       ELSE IF d[1] = <<>> THEN TRUE
       ELSE IF DomainGrammar(d[1])
       THEN /\ srequest # None
            /\ srequest[1]["q"] = <<"s", "i", "t", "e", ":">> \o d[1] \o <<" ">> \o sargs.query
       ELSE SearchFailedWith("Invalid domain_filter") /\ sresult.quotes = d

RangedRecencies == {"day", "week", "month", "year"}

\* C6: search never fails because of recency: whenever the three checks pass
\* the GET goes out, and it carries time_range = recency exactly when recency
\* is day, week, month or year, and no time_range key otherwise (all_time, or
\* a value outside the five, which counts as all_time).
C6_RecencyNeverFatal ==
    /\ (SearchCalled /\ search_check(url, sargs.query, sargs.domain_filter) = "ok")
       => srequest # None
    /\ srequest # None
       => LET params == srequest[1] IN
          IF sargs.recency \in RangedRecencies
          THEN "time_range" \in DOMAIN params /\ params["time_range"] = <<sargs.recency>>
          ELSE "time_range" \notin DOMAIN params

\* A search with an unrecognised recency has returned results.
C6_Witness ==
    /\ spc = "done"
    /\ sargs.recency \notin VALID_RECENCY_VALUES
    /\ sresult.kind = "ok"
    /\ Len(sresult.results) > 0
    /\ "time_range" \notin DOMAIN srequest[1]

\* The record a backend entry maps to: missing title/url/content are the empty
\* string, a missing publishedDate is None.
Mapped(item) ==
    [title |-> IF "title" \in DOMAIN item THEN item["title"] ELSE "",
     url |-> IF "url" \in DOMAIN item THEN item["url"] ELSE "",
     snippet |-> IF "content" \in DOMAIN item THEN item["content"] ELSE "",
     published_date |-> IF "publishedDate" \in DOMAIN item
                        THEN <<item["publishedDate"]>> ELSE <<>>]

\* The records returned are the mapped entries of a prefix of the backend's array.
ResultsArePrefix ==
    LET got == sresult.results
        sent == sresponse[1].results
    IN  /\ Len(got) <= Len(sent)
        /\ \A i \in 1..Len(got) : got[i] = Mapped(sent[i])

\* C7 as stated: for every integer max_results a successful search returns at
\* most max_results records, a mapped prefix of the backend's array.
C7_AtMostMaxResults ==
    (spc = "done" /\ sresult.kind = "ok")
    => (Len(sresult.results) <= sargs.max_results /\ ResultsArePrefix)

\* C7 amended: a successful search returns a mapped prefix of the backend's
\* array; for max_results >= 0 it holds the first max_results entries (all of
\* them when there are fewer), for max_results < 0 it holds all but the last
\* -max_results entries (none when there are no more than that).
C7_PrefixOfBackend ==
    (spc = "done" /\ sresult.kind = "ok")
    => LET n == Len(sresult.results)
           have == Len(sresponse[1].results)
           m == sargs.max_results
       IN  /\ ResultsArePrefix
           /\ m >= 0 => n = (IF have < m THEN have ELSE m)
           /\ m < 0 => n = (IF have + m > 0 THEN have + m ELSE 0)

\* Two entries came back, the first without a date, and max_results = 1 kept one.
C7_Witness ==
    /\ spc = "done" /\ sresult.kind = "ok"
    /\ sargs.max_results = 1
    /\ Len(sresponse[1].results) = 2
    /\ Len(sresult.results) = 1
    /\ sresult.results[1].published_date = None
    /\ sresult.results[1].title = ""

\* C8: every call of the search and fetch tools returns the success shape or
\* an error payload; no exception leaves the tool function.
C8_ToolsNeverRaise ==
    /\ (spc = "done" /\ toolArgs # None) => spayload.kind \in {"success", "error"}
    /\ \A t \in Tasks :
           (fpc[t] = "done" /\ fargs[t].via = "tool")
           => fpayload[t].kind \in {"success", "error"}

\* C9: a configured client issues at most one GET of <base>/healthz, and every
\* check_health call returns what the first one did: true exactly when that
\* one probe answered 200.
C9_HealthProbedOnce ==
    url # ""
    => /\ Len(healthzGets) <= 1
       /\ healthReturns # <<>> => Len(healthzGets) = 1
       /\ \A i \in 1..Len(healthReturns) :
              healthReturns[i].value = (healthzGets[1] = "200")

\* The first probe found the backend up, the backend has since gone down, and
\* check_health has been called again.
C9_Witness ==
    /\ url # ""
    /\ Len(healthReturns) >= 2
    /\ healthzGets = <<"200">>
    /\ backend = "unreachable"
    /\ healthReturns[Len(healthReturns)].value = TRUE

\* C10: the max_results the search tool hands to SearXNGClient.search lies in
\* 1..20: 1 for values below 1, 20 for values above 20, the value itself else.
C10_MaxResultsClamped ==
    (SearchCalled /\ toolArgs # None)
    => LET given == toolArgs[1] IN
       /\ sargs.max_results \in 1..20
       /\ sargs.max_results = (IF given < 1 THEN 1 ELSE IF given > 20 THEN 20 ELSE given)

\* The tool was given 25 and the client was called with 20.
C10_Witness ==
    /\ SearchCalled
    /\ toolArgs = <<25>>
    /\ sargs.max_results = 20
    /\ srequest # None

\* ---------------------------------------------------------------------------
\* C11
\* ---------------------------------------------------------------------------

\* Callers whose GET came back with a 2xx status.
Got2xx(t) ==
    /\ fraw[t] # NoRaw
    /\ fraw[t][1].kind = "response"
    /\ fraw[t][1].status \in 200..299

\* The response's Content-Length header is a number above the cap.
OverCap(resp) ==
    /\ resp.content_length # None
    /\ is_decimal(resp.content_length[1])
    /\ int_of(resp.content_length[1]) > 1000000

\* The response's Content-Length header is absent, or a number within the cap.
WithinCap(resp) ==
    \/ resp.content_length = None
    \/ /\ is_decimal(resp.content_length[1])
       /\ int_of(resp.content_length[1]) <= 1000000

FieldLines(s) ==
    LET og_matches == og_findall(s, 1) IN
    (IF title_search(s) = None THEN <<>>
     ELSE <<Title \o ColonSpace \o unescape(strip(title_search(s)[1]))>>)
    \o (IF description_search(s) = None THEN <<>>
        ELSE <<Description \o ColonSpace \o unescape(strip(description_search(s)[1]))>>)
    \o [n \in 1..Len(og_matches) |->
          OgUnderscore \o og_matches[n][1] \o ColonSpace
              \o unescape(strip(og_matches[n][2]))]

\* C12: the metadata extractor returns the title line, the description line
\* and one og_<property> line for every og tag found, in that order, joined by
\* newlines: a repeated og property has a line per occurrence, a field that is
\* not found has none, and no field at all gives the empty string.
C12_OneLinePerField ==
    extracted.by = "_extract_metadata" => extracted.value = join_lines(FieldLines(html))

\* ---------------------------------------------------------------------------
\* C13
\* ---------------------------------------------------------------------------

\* An end tag begins at position c of s: name_end, then white space or
\* nothing, then >.
EndTagAt(s, c, name_end) ==
    /\ match_at(s, c, name_end, TRUE)
    /\ LET stops == {k \in (c + Len(name_end))..Len(s) : s[k] \notin Whitespace} IN
       stops # {} /\ s[first(stops)] = ">"

LtSlashScript == <<"<", "/", "s", "c", "r", "i", "p", "t">>
LtSlashStyle == <<"<", "/", "s", "t", "y", "l", "e">>

\* The bodies of the blocks of s read from position pos on: what stands
\* between an opening tag and the first end tag after it.
RECURSIVE ElementBodies(_, _, _, _)
ElementBodies(s, pos, open, name_end) ==
    LET starts == {i \in pos..Len(s) :
                     /\ match_at(s, i, open, TRUE)
                     /\ find(s, i + Len(open), <<">">>, FALSE) # 0}
    IN  IF starts = {} THEN {}
        ELSE LET gt == find(s, first(starts) + Len(open), <<">">>, FALSE)
                 ends == {c \in (gt + 1)..Len(s) : EndTagAt(s, c, name_end)}
             IN  IF ends = {} THEN {}
                 ELSE {SubSeq(s, gt + 1, first(ends) - 1)}
                      \cup ElementBodies(s, first(ends) + Len(name_end), open, name_end)

\* The comments of s read from position pos on, delimiters included.
RECURSIVE Comments(_, _)
Comments(s, pos) ==
    LET o == find(s, pos, CommentOpen, FALSE)
        c == IF o = 0 THEN 0 ELSE find(s, o + Len(CommentOpen), CommentClose, FALSE)
    IN  IF c = 0 THEN {}
        ELSE {SubSeq(s, o, c + Len(CommentClose) - 1)}
             \cup Comments(s, c + Len(CommentClose))

\* sub occurs in s.
Contains(s, sub) == \E i \in 1..Len(s) : match_at(s, i, sub, FALSE)

\* sub occurs in s at one place only.
OccursOnce(s, sub) == Cardinality({i \in 1..Len(s) : match_at(s, i, sub, FALSE)}) = 1

\* C13: the text the regex extractor returns contains no body of a script or
\* style block of its input and no comment of its input (for a body that is
\* not empty and stands at one place only in the input, so that finding it in
\* the output means it was left there).
C13_NoBlockBodyLeft ==
    extracted.by = "_regex_extract" =>
        \A b \in ElementBodies(html, 1, LtScript, LtSlashScript)
                 \cup ElementBodies(html, 1, LtStyle, LtSlashStyle)
                 \cup Comments(html, 1) :
            (b # <<>> /\ OccursOnce(html, b)) => ~Contains(extracted.value, b)

\* ---------------------------------------------------------------------------
\* C14
\* ---------------------------------------------------------------------------

\* A caller that starts to sleep in the critical section sleeps for more than
\* no time and at most MIN_REQUEST_INTERVAL.
SleepBounded ==
    \A t \in Tasks :
        (fpc[t] # "sleeping" /\ fpc'[t] = "sleeping") =>
            (wake'[t] - clock' >= 1 /\ wake'[t] - clock' <= 3)

\* The lock is held exactly while one caller is inside the section, which it
\* is only while it sleeps there.
HeldOnlyInside ==
    /\ rate_limit_lock <=> \E t \in Tasks : fpc[t] = "sleeping"
    /\ \A t, u \in Tasks : (fpc[t] = "sleeping" /\ fpc[u] = "sleeping") => t = u

\* A caller that waits for the lock, or sleeps holding it, gets past the
\* limiter to _fetch_url unless it is itself cancelled.
GetsThrough ==
    \A t \in Tasks :
        (fpc[t] \in {"waiting", "sleeping"})
            ~> (fpc[t] = "connecting" \/ fresult[t] = Cancelled)

====
